---- MODULE Spec2Model ----
(***************************************************************************)
(* PlaneCode (src/src/app.jsx): the App component's route session          *)
(* (origin / destination / routeInfo), the airport search box and the      *)
(* airport marker layer (updateAirportMarkers).                            *)
(*                                                                         *)
(* An airport reference is the index of the airport in the loaded dataset  *)
(* (the `airports` array); its fields are read through that array.  A      *)
(* search result is a copy `{...airport, distance}` of the dataset object  *)
(* and so refers to the same index.                                        *)
(*                                                                         *)
(* Leaflet is the environment: it delivers moveend / zoomend with the new  *)
(* view (also the views requested by setView and fitBounds), and opens     *)
(* and closes marker popups on user clicks.  The popups are bound with the *)
(* default options (autoClose), so opening a popup closes the one that is  *)
(* open on the map.                                                        *)
(***************************************************************************)
EXTENDS Integers, Sequences, FiniteSets, TLC

\* ------------------------------------------------------------------------
\* Program constants
\* ------------------------------------------------------------------------
MAX_VISIBLE_AIRPORTS == 20

MIN_ZOOM_FOR_MARKERS == 5

\* L.map(..., { zoom: 2 })
MapInitZoom == 2

\* results.slice(0, 10)
SearchLimit == 10

\* A nullable value: <<>> is JS null (useState(null), useRef(null)), <<v>> is
\* the value v
None == <<>>

Some(v) == <<v>>

Val(o) == o[1]

\* An airport's level field: <<k>> for the number k, <<>> when the record has
\* no level (JS undefined)
Level(k) == <<k>>

Undefined == <<>>

\* ------------------------------------------------------------------------
\* Bounds of the model
\* ------------------------------------------------------------------------
\* largest zoom level a modelled view takes (the map allows up to 18)
TopZoom == 5

\* size of the dense dataset (marker-cap specification)
DenseN == 28

\* size of the small dataset (session specification)
SessionN == 3

\* ------------------------------------------------------------------------
\* Generic helpers
\* ------------------------------------------------------------------------
Range(s) == {s[i] : i \in DOMAIN s}

Max2(a, b) == IF a >= b THEN a ELSE b

\* Array.prototype.slice(0, n)
Slice(s, n) == IF Len(s) <= n THEN s ELSE SubSeq(s, 1, n)

\* ------------------------------------------------------------------------
\* Strings: a string is a sequence of characters; the alphabet is small
\* ------------------------------------------------------------------------
\* String.prototype.toLowerCase on one character
LowerChar(c) ==
    CASE c = "A" -> "a"
      [] c = "B" -> "b"
      [] c = "C" -> "c"
      [] c = "K" -> "k"
      [] OTHER -> c

toLowerCase(s) == [i \in DOMAIN s |-> LowerChar(s[i])]

\* String.prototype.trim: leading and trailing blanks removed
RECURSIVE TrimLeft(_)
TrimLeft(s) ==
    IF s # <<>> /\ Head(s) = " " THEN TrimLeft(Tail(s)) ELSE s

RECURSIVE TrimRight(_)
TrimRight(s) ==
    IF s # <<>> /\ s[Len(s)] = " " THEN TrimRight(SubSeq(s, 1, Len(s) - 1)) ELSE s

trim(s) == TrimRight(TrimLeft(s))

\* String.prototype.includes
includes(s, q) ==
    \E i \in 0..(Len(s) - Len(q)) : SubSeq(s, i + 1, i + Len(q)) = q

\* ------------------------------------------------------------------------
\* Datasets (the contents of /airports.json; icao values are unique)
\* ------------------------------------------------------------------------
Airport(icao, iata, name, city, level, lat, lon) ==
    [icao |-> icao, iata |-> iata, name |-> name, city |-> city,
     level |-> level, lat |-> lat, lon |-> lon]

\* the small dataset: levels 1, 2, undefined, 1, ... along one parallel
SessionLevel(i) ==
    CASE i % 3 = 1 -> Level(1)
      [] i % 3 = 2 -> Level(2)
      [] OTHER -> Undefined

SessionLetter(i) ==
    CASE i % 3 = 1 -> "A"
      [] i % 3 = 2 -> "b"
      [] OTHER -> "C"

SessionDigit(i) ==
    CASE i = 1 -> "1"
      [] i = 2 -> "2"
      [] i = 3 -> "3"
      [] i = 4 -> "4"
      [] OTHER -> "5"

SessionData ==
    [i \in 1..SessionN |->
        Airport(<<"K", SessionLetter(i), SessionDigit(i)>>,
                <<SessionLetter(i)>>,
                <<SessionLetter(i), " ", "x">>,
                <<SessionLetter(i + 1)>>,
                SessionLevel(i), 1, i)]

\* the dense dataset: more than MAX_VISIBLE_AIRPORTS level-1 airports, a few
\* of level 2 and 3 and one without a level, interleaved in dataset order
DenseLevel(i) ==
    CASE i \in {3, 11, 14, 20} -> Level(2)
      [] i \in {7, 26} -> Level(3)
      [] i = 5 -> Undefined
      [] OTHER -> Level(1)

DenseData ==
    [i \in 1..DenseN |->
        Airport(<<"K", i>>, <<i>>, <<"a">>, <<"b">>, DenseLevel(i), 1, i)]

\* the search dataset: more airports than SearchLimit, in a dataset order
\* that is not the order along the parallel they lie on
SearchN == 12

\* a prefix of the search dataset with fewer airports than SearchLimit
SearchSmallN == 6

Digit(n) ==
    CASE n = 0 -> "0"
      [] n = 1 -> "1"
      [] n = 2 -> "2"
      [] n = 3 -> "3"
      [] n = 4 -> "4"
      [] n = 5 -> "5"
      [] n = 6 -> "6"
      [] n = 7 -> "7"
      [] n = 8 -> "8"
      [] OTHER -> "9"

SearchLon(i) == (5 * i) % SearchN

SearchData ==
    [i \in 1..SearchN |->
        Airport(<<"K", SessionLetter(i), Digit((i \div 10) % 10), Digit(i % 10)>>,
                <<SessionLetter(i)>>,
                <<SessionLetter(i), " ", "x">>,
                <<SessionLetter(i + 1)>>,
                Level(1), 1, SearchLon(i))]

\* ------------------------------------------------------------------------
\* Map views (Leaflet): bounds and zoom
\* ------------------------------------------------------------------------
Box(south, north, west, east) ==
    [south |-> south, north |-> north, west |-> west, east |-> east]

\* L.LatLngBounds.contains([lat, lon])
contains(b, lat, lon) ==
    /\ b.south <= lat /\ lat <= b.north
    /\ b.west <= lon /\ lon <= b.east

\* the zoom levels a move or zoom ends at: around MIN_ZOOM_FOR_MARKERS
Zooms == (MIN_ZOOM_FOR_MARKERS - 1)..TopZoom

\* views of the session specification
SessionBoxes ==
    {Box(0, 2, 1, SessionN), Box(0, 2, 2, SessionN + 1)}

\* views of the search specification: centres between and on airports
SearchBoxes ==
    {Box(0, 2, 0, SearchN - 1), Box(0, 2, 0, 4)}

\* views of the marker-cap specification
DenseBoxes ==
    {Box(0, 2, 1, DenseN), Box(0, 2, 1, 24), Box(0, 2, 1, 22), Box(0, 2, 1, 10),
     Box(0, 2, 4, 10), Box(0, 2, 25, DenseN), Box(2, 3, 1, DenseN)}

\* the view of L.map(..., { center: [0, 0], zoom: 2 })
InitBox == Box(0, 2, 1, 2)

\* ------------------------------------------------------------------------
\* Airport marker layer: updateAirportMarkers
\* A marker is [airport |-> index of marker._airportData, popup |-> isPopupOpen(),
\*               icon |-> the size and colour of its divIcon]
\* ------------------------------------------------------------------------
\* the icon table: one entry per numeric key and the default entry
AIRPORT_LEVEL_CONFIG ==
    [levels |-> [l \in {1, 2} |-> IF l = 1 THEN [size |-> 10, color |-> "#FF4444"]
                                           ELSE [size |-> 8, color |-> "#4285F4"]],
     default |-> [size |-> 6, color |-> "#888888"]]

\* mutant: every level gets the default icon
iconConfig_AlwaysDefault(level) == AIRPORT_LEVEL_CONFIG.default

\* AIRPORT_LEVEL_CONFIG[airport.level] || AIRPORT_LEVEL_CONFIG.default
iconConfig(level) ==
    IF level # Undefined /\ level[1] \in DOMAIN AIRPORT_LEVEL_CONFIG.levels
    THEN AIRPORT_LEVEL_CONFIG.levels[level[1]]
    ELSE AIRPORT_LEVEL_CONFIG.default

Marker(a, config) ==
    [airport |-> a, popup |-> FALSE,
     icon |-> [size |-> config.size, color |-> config.color]]

\* airports.reduce((max, airport) => Math.max(max, airport.level || 1), 1)
maxLevel(data) ==
    LET acc[k \in 0..Len(data)] ==
            IF k = 0 THEN 1
            ELSE Max2(acc[k - 1],
                      IF data[k].level = Undefined THEN 1 ELSE data[k].level[1])
    IN acc[Len(data)]

\* mutant: no marker is preserved
markersToPreserve_None(markers) == <<>>

\* mutant: every marker is preserved, its popup open or not
markersToPreserve_KeepsAll(markers) == markers

\* const markersToPreserve = airportMarkersRef.current.filter(m => m.isPopupOpen())
markersToPreserve(markers) == SelectSeq(markers, LAMBDA m : m.popup)

\* airports.filter(airport => bounds.contains([airport.lat, airport.lon]))
visibleAirports(data, b) ==
    SelectSeq([i \in 1..Len(data) |-> i],
              LAMBDA i : contains(b, data[i].lat, data[i].lon))

\* mutant: an airport without a level is selected with level 1
RECURSIVE levelLoop_UndefinedAsLevel1(_, _, _, _, _)
levelLoop_UndefinedAsLevel1(data, visible, airportsToShow, currentLevel, mxLevel) ==
    IF Len(airportsToShow) < MAX_VISIBLE_AIRPORTS /\ currentLevel <= mxLevel
    THEN levelLoop_UndefinedAsLevel1(data, visible,
             airportsToShow
               \o SelectSeq(visible,
                    LAMBDA i : \/ data[i].level = Level(currentLevel)
                               \/ data[i].level = Undefined /\ currentLevel = 1),
             currentLevel + 1, mxLevel)
    ELSE airportsToShow

\* mutant: a level with no airport in the bounding box ends the loop
RECURSIVE levelLoop_StopsAtEmptyLevel(_, _, _, _, _)
levelLoop_StopsAtEmptyLevel(data, visible, airportsToShow, currentLevel, mxLevel) ==
    LET levelAirports ==
            SelectSeq(visible, LAMBDA i : data[i].level = Level(currentLevel))
    IN IF /\ Len(airportsToShow) < MAX_VISIBLE_AIRPORTS
          /\ currentLevel <= mxLevel
          /\ levelAirports # <<>>
       THEN levelLoop_StopsAtEmptyLevel(data, visible, airportsToShow \o levelAirports,
                                        currentLevel + 1, mxLevel)
       ELSE airportsToShow

\* the while loop over currentLevel
RECURSIVE levelLoop(_, _, _, _, _)
levelLoop(data, visible, airportsToShow, currentLevel, mxLevel) ==
    IF Len(airportsToShow) < MAX_VISIBLE_AIRPORTS /\ currentLevel <= mxLevel
    THEN levelLoop(data, visible,
                   airportsToShow
                     \o SelectSeq(visible, LAMBDA i : data[i].level = Level(currentLevel)),
                   currentLevel + 1, mxLevel)
    ELSE airportsToShow

\* mutant: the slice(0, MAX_VISIBLE_AIRPORTS) is missing
airportsToShow_NoSlice(data, b) ==
    levelLoop(data, visibleAirports(data, b), <<>>, 1, maxLevel(data))

\* mutant: the last MAX_VISIBLE_AIRPORTS of the accumulated airports are kept
airportsToShow_KeepsLast(data, b) ==
    LET all == levelLoop(data, visibleAirports(data, b), <<>>, 1, maxLevel(data))
    IN IF Len(all) <= MAX_VISIBLE_AIRPORTS THEN all
       ELSE SubSeq(all, Len(all) - MAX_VISIBLE_AIRPORTS + 1, Len(all))

\* airportsToShow after the loop and the slice(0, MAX_VISIBLE_AIRPORTS)
airportsToShow(data, b) ==
    Slice(levelLoop(data, visibleAirports(data, b), <<>>, 1, maxLevel(data)),
          MAX_VISIBLE_AIRPORTS)

\* mutant: the set of preserved icaos is left empty
preservedICAOs_Empty(data, preserved) == {}

\* new Set(markersToPreserve.map(m => m._airportData?.icao).filter(...))
preservedICAOs(data, preserved) == {data[m.airport].icao : m \in Range(preserved)}

\* mutant: a marker is created for a preserved airport too
createdMarkers_NoSkip(data, toShow, preserved) ==
    [k \in DOMAIN toShow |-> Marker(toShow[k], iconConfig(data[toShow[k]].level))]

\* the markers created by airportsToShow.forEach(...)
createdMarkers(data, toShow, preserved) ==
    LET icaos == preservedICAOs(data, preserved)
        fresh == SelectSeq(toShow, LAMBDA i : data[i].icao \notin icaos)
    IN [k \in DOMAIN fresh |-> Marker(fresh[k], iconConfig(data[fresh[k]].level))]

\* openPopup() on a marker of the map: the popup that was open closes
closePopups(markers) == [k \in DOMAIN markers |-> [markers[k] EXCEPT !.popup = FALSE]]

\* mutant: markers are created above MIN_ZOOM_FOR_MARKERS only, not at it
updateAirportMarkers_AboveOnly(data, markers, b, z) ==
    LET preserved == markersToPreserve(markers) IN
    IF z <= MIN_ZOOM_FOR_MARKERS THEN preserved
    ELSE preserved \o createdMarkers(data, airportsToShow(data, b), preserved)

\* airportMarkersRef.current after updateAirportMarkers()
updateAirportMarkers(data, markers, b, z) ==
    LET preserved == markersToPreserve(markers) IN
    IF z < MIN_ZOOM_FOR_MARKERS THEN preserved
    ELSE preserved \o createdMarkers(data, airportsToShow(data, b), preserved)

\* ------------------------------------------------------------------------
\* Search box: the filter effect (deps [searchQuery, airports, searchOpen])
\* ------------------------------------------------------------------------
\* mutant: the city is not searched
matchesQuery_NoCity(a, query) ==
    \/ includes(toLowerCase(a.name), query)
    \/ includes(toLowerCase(a.iata), query)
    \/ includes(toLowerCase(a.icao), query)

\* airport.name / city / iata / icao .toLowerCase().includes(query)
matchesQuery(a, query) ==
    \/ includes(toLowerCase(a.name), query)
    \/ includes(toLowerCase(a.city), query)
    \/ includes(toLowerCase(a.iata), query)
    \/ includes(toLowerCase(a.icao), query)

\* center.distanceTo([airport.lat, airport.lon]) with center = map.getCenter():
\* the squared planar distance in doubled coordinates orders the airports of
\* the modelled grid as the distance on the sphere does
distanceTo(b, a) ==
    LET dLat == 2 * a.lat - (b.south + b.north)
        dLon == 2 * a.lon - (b.west + b.east)
    IN dLat * dLat + dLon * dLon

\* mutant: airports at equal distance come out in reverse dataset order
RECURSIVE sortByDistance_Unstable(_, _, _)
sortByDistance_Unstable(data, b, results) ==
    IF results = <<>> THEN <<>>
    ELSE LET n == Len(results)
             rest == sortByDistance_Unstable(data, b, SubSeq(results, 1, n - 1))
             x == results[n]
             k == Cardinality({j \in DOMAIN rest :
                     distanceTo(b, data[rest[j]]) < distanceTo(b, data[x])})
         IN SubSeq(rest, 1, k) \o <<x>> \o SubSeq(rest, k + 1, Len(rest))

\* results.map(a => ({...a, distance})).sort((a, b) => a.distance - b.distance):
\* Array.prototype.sort is stable
RECURSIVE sortByDistance(_, _, _)
sortByDistance(data, b, results) ==
    IF results = <<>> THEN <<>>
    ELSE LET n == Len(results)
             rest == sortByDistance(data, b, SubSeq(results, 1, n - 1))
             x == results[n]
             k == Cardinality({j \in DOMAIN rest :
                     distanceTo(b, data[rest[j]]) <= distanceTo(b, data[x])})
         IN SubSeq(rest, 1, k) \o <<x>> \o SubSeq(rest, k + 1, Len(rest))

\* mutant: the limit is missing
filterAirports_NoLimit(data, query, open, b) ==
    IF query = <<>> /\ ~open THEN <<>>
    ELSE LET all == [i \in 1..Len(data) |-> i]
             results ==
                 IF query # <<>>
                 THEN SelectSeq(all,
                        LAMBDA i : matchesQuery(data[i], trim(toLowerCase(query))))
                 ELSE all
         IN sortByDistance(data, b, results)

\* the value the effect passes to setFilteredAirports
filterAirports(data, query, open, b) ==
    IF query = <<>> /\ ~open THEN <<>>
    ELSE LET all == [i \in 1..Len(data) |-> i]
             results ==
                 IF query # <<>>
                 THEN SelectSeq(all,
                        LAMBDA i : matchesQuery(data[i], trim(toLowerCase(query))))
                 ELSE all
         IN Slice(sortByDistance(data, b, results), SearchLimit)

\* what the user types into the search input
SearchInputs == {<<"B", " ">>}

\* what the user types in the search specification: blanks only, blanks
\* around a word, a blank inside, upper and lower case, a digit, no match
SearchQueries ==
    {<<" ">>, <<"B", " ">>, <<" ", "X", " ">>, <<"a", " ", "x">>,
     <<"k", "C">>, <<"1">>, <<"z">>}

\* ------------------------------------------------------------------------
\* Route session: the state handleAirportSelect, createRoute and clearRoute
\* read and write, as one record
\* ------------------------------------------------------------------------
RouteMarker(airport, type) == [airport |-> airport, type |-> type]

\* mutant: the endpoints are swapped
createRoute_Swapped(origin, destination) ==
    [origin |-> destination, destination |-> origin]

\* the value createRoute passes to setRouteInfo
createRoute(origin, destination) ==
    [origin |-> origin, destination |-> destination]

\* the polyline createRoute stores in routeLineRef.current
routeLine(origin, destination) == [from |-> origin, to |-> destination]

\* mutant: setDestinationAirport(null) is missing
clearRoute_KeepsDestination(s) ==
    [s EXCEPT !.routeLineRef = None,
              !.markersRef = <<>>,
              !.originAirport = None,
              !.routeInfo = None,
              !.routeInfoExpanded = FALSE]

\* mutant: setRouteInfo(null) is missing
clearRoute_KeepsRouteInfo(s) ==
    [s EXCEPT !.routeLineRef = None,
              !.markersRef = <<>>,
              !.originAirport = None,
              !.destinationAirport = None,
              !.routeInfoExpanded = FALSE]

\* mutant: the route endpoint markers stay on the map
clearRoute_KeepsMarkers(s) ==
    [s EXCEPT !.routeLineRef = None,
              !.originAirport = None,
              !.destinationAirport = None,
              !.routeInfo = None,
              !.routeInfoExpanded = FALSE]

\* mutant: the route panel stays expanded
clearRoute_KeepsExpanded(s) ==
    [s EXCEPT !.routeLineRef = None,
              !.markersRef = <<>>,
              !.originAirport = None,
              !.destinationAirport = None,
              !.routeInfo = None]

clearRoute(s) ==
    [s EXCEPT !.routeLineRef = None,
              !.markersRef = <<>>,
              !.originAirport = None,
              !.destinationAirport = None,
              !.routeInfo = None,
              !.routeInfoExpanded = FALSE]

\* mutant: the first selection is stored as the destination as well
selectOrigin_AlsoDestination(s, airport) ==
    [s EXCEPT !.markersRef = <<RouteMarker(airport, "origin")>>,
              !.originAirport = Some(airport),
              !.destinationAirport = Some(airport),
              !.searchOpen = FALSE,
              !.searchQuery = <<>>]

\* handleAirportSelect, branch `if (!originAirport)`
selectOrigin(s, airport) ==
    [s EXCEPT !.markersRef = <<RouteMarker(airport, "origin")>>,
              !.originAirport = Some(airport),
              !.searchOpen = FALSE,
              !.searchQuery = <<>>]

\* handleAirportSelect, branch `else if (!destinationAirport)`; o is the
\* originAirport the handler's closure holds
selectDestination(s, o, airport) ==
    [s EXCEPT !.markersRef = Append(s.markersRef, RouteMarker(airport, "destination")),
              !.destinationAirport = Some(airport),
              !.routeLineRef = Some(routeLine(o, airport)),
              !.routeInfo = Some(createRoute(o, airport)),
              !.searchOpen = FALSE,
              !.searchQuery = <<>>]

\* handleAirportSelect, branch `else`
replaceRoute(s, airport) ==
    [clearRoute(s) EXCEPT !.markersRef = <<RouteMarker(airport, "origin")>>,
                          !.originAirport = Some(airport),
                          !.searchOpen = FALSE,
                          !.searchQuery = <<>>]

\* handleAirportSelect(airport) of a render whose originAirport was o and
\* whose destinationAirport was d (mapRef.current is set once mounted)
handleAirportSelect(s, o, d, airport) ==
    IF o = None THEN selectOrigin(s, airport)
    ELSE IF d = None THEN selectDestination(s, Val(o), airport)
    ELSE replaceRoute(s, airport)

\* toggleRouteInfoExpanded
toggleRouteInfoExpanded(s) ==
    [s EXCEPT !.routeInfoExpanded = ~s.routeInfoExpanded]

\* mutant: closing the search box keeps the query
handleSearchToggle_KeepsQuery(s) ==
    [s EXCEPT !.searchOpen = ~s.searchOpen]

\* handleSearchToggle
handleSearchToggle(s) ==
    [s EXCEPT !.searchOpen = ~s.searchOpen,
              !.searchQuery = IF s.searchOpen THEN <<>> ELSE s.searchQuery]

\* ------------------------------------------------------------------------
\* Flight estimate: AIRCRAFT_CONFIG and calculateFlightTime
\* A distance is a whole number of 1/DistanceScale km; a duration in hours is
\* an exact fraction. The source computes in doubles: the results agree
\* except where a value falls within rounding error of a floor or a
\* half-minute boundary.
\* ------------------------------------------------------------------------
DistanceScale == 10

\* the longest distance of the flight-estimate specification, in km
MaxDistanceKm == 6100

\* a finite maxDistance and the maxDistance Infinity
Finite(x) == <<x>>
Infinity == <<>>

\* mutant: the table ends with the 6000 km band
AIRCRAFT_CONFIG_NoInfinity ==
    <<[maxDistance |-> Finite(500), name |-> "Regional Jet (e.g., Embraer E175)",
       speedKmh |-> 700],
      [maxDistance |-> Finite(1500),
       name |-> "Narrow Body (e.g., Boeing 737, Airbus A320)", speedKmh |-> 800],
      [maxDistance |-> Finite(6000),
       name |-> "Wide Body (e.g., Boeing 787, Airbus A350)", speedKmh |-> 900]>>

AIRCRAFT_CONFIG ==
    <<[maxDistance |-> Finite(500), name |-> "Regional Jet (e.g., Embraer E175)",
       speedKmh |-> 700],
      [maxDistance |-> Finite(1500),
       name |-> "Narrow Body (e.g., Boeing 737, Airbus A320)", speedKmh |-> 800],
      [maxDistance |-> Finite(6000),
       name |-> "Wide Body (e.g., Boeing 787, Airbus A350)", speedKmh |-> 900],
      [maxDistance |-> Infinity,
       name |-> "Large Wide Body (e.g., Boeing 777, Airbus A380)", speedKmh |-> 920]>>

\* mutant: no time is added for taxi, takeoff and landing
TAXI_TAKEOFF_LANDING_HOURS_Zero == [num |-> 0, den |-> 2]

\* 0.5
TAXI_TAKEOFF_LANDING_HOURS == [num |-> 1, den |-> 2]

\* mutant: a distance equal to maxDistance stays in the band
lessThan_OrEqual(distanceKm, maxDistance) ==
    maxDistance = Infinity \/ distanceKm <= maxDistance[1] * DistanceScale

\* distanceKm < cfg.maxDistance
lessThan(distanceKm, maxDistance) ==
    maxDistance = Infinity \/ distanceKm < maxDistance[1] * DistanceScale

\* AIRCRAFT_CONFIG.find(cfg => distanceKm < cfg.maxDistance): the first
\* band that passes, None (undefined) when no band does
find(configs, distanceKm) ==
    LET passing == SelectSeq(configs, LAMBDA cfg : lessThan(distanceKm, cfg.maxDistance))
    IN IF passing = <<>> THEN None ELSE Some(Head(passing))

\* Math.floor(num / den) for num >= 0, den > 0
floor(num, den) == num \div den

\* Math.round(num / den): the nearest integer, a half rounds up
round(num, den) == (2 * num + den) \div (2 * den)

\* calculateFlightTime(distanceKm): Some(result), or None when config.name
\* throws a TypeError because find returned undefined
calculateFlightTime(distanceKm) ==
    LET config == find(AIRCRAFT_CONFIG, distanceKm) IN
    IF config = None THEN None
    ELSE LET aircraft == Val(config).name
             speedKmh == Val(config).speedKmh
             taxi == TAXI_TAKEOFF_LANDING_HOURS
             \* flightTimeHours = timeNum / timeDen
             timeDen == DistanceScale * speedKmh * taxi.den
             timeNum == distanceKm * taxi.den + taxi.num * DistanceScale * speedKmh
             hours == floor(timeNum, timeDen)
             minutes == round((timeNum - hours * timeDen) * 60, timeDen)
         IN Some([hours |-> hours, minutes |-> minutes, aircraft |-> aircraft])

\* the distances of the flight-estimate specification
FlightDistances == 0..(MaxDistanceKm * DistanceScale)

\* ------------------------------------------------------------------------
\* State
\* ------------------------------------------------------------------------
VARIABLES
    airports,            \* useState([]): the loaded dataset
    bounds,              \* map.getBounds()
    zoom,                \* map.getZoom()
    airportMarkersRef,   \* airportMarkersRef.current
    markersRef,          \* markersRef.current: the route endpoint markers
    routeLineRef,        \* routeLineRef.current
    originAirport,
    destinationAirport,
    routeInfo,
    routeInfoExpanded,
    searchOpen,
    searchQuery,
    filteredAirports,
    closure,             \* originAirport / destinationAirport of the render whose
                         \* handleAirportSelect the marker effect closed over
    flight,              \* a call of calculateFlightTime: its argument and result
    last                 \* history: the last event and the state it found

vars ==
    <<airports, bounds, zoom, airportMarkersRef, markersRef, routeLineRef,
      originAirport, destinationAirport, routeInfo, routeInfoExpanded,
      searchOpen, searchQuery, filteredAirports, closure, flight, last>>

\* the session record of the current state
Cur ==
    [markersRef |-> markersRef,
     routeLineRef |-> routeLineRef,
     originAirport |-> originAirport,
     destinationAirport |-> destinationAirport,
     routeInfo |-> routeInfo,
     routeInfoExpanded |-> routeInfoExpanded,
     searchOpen |-> searchOpen,
     searchQuery |-> searchQuery]

\* the session states of the route session
SessionState(o, d) ==
    IF o = None THEN "Empty"
    ELSE IF d = None THEN "OriginSelected"
    ELSE "RouteComplete"

\* airports whose marker has its popup open
Pinned == {m.airport : m \in {x \in Range(airportMarkersRef) : x.popup}}

\* the markers a marker update is about to find with their popup closed and
\* their airport outside the selection of the view they are shown in: markers
\* that were kept for their open popup, which has been closed since
Unpinned ==
    LET selected == IF zoom < MIN_ZOOM_FOR_MARKERS THEN {}
                               ELSE Range(airportsToShow(airports, bounds))
    IN {m.airport : m \in {x \in Range(airportMarkersRef) :
                              ~x.popup /\ x.airport \notin selected}}

\* the history record of an event: what it was, the session it found, for a
\* marker update the airports whose popup was open and those whose popup
\* had been closed, for a toggle or a selection the query it found
Event(op, via, airport) ==
    [op |-> op, via |-> via, airport |-> airport,
     pre |-> [originAirport |-> originAirport,
              destinationAirport |-> destinationAirport,
              routeInfo |-> routeInfo,
              state |-> SessionState(originAirport, destinationAirport)],
     pinned |-> IF op \in {"load", "moveend"} THEN Pinned ELSE {},
     unpinned |-> IF op \in {"load", "moveend"} THEN Unpinned ELSE {},
     query |-> IF op \in {"toggle", "select"} THEN searchQuery ELSE <<>>]

InitApp ==
    /\ airports = <<>>
    /\ bounds = InitBox
    /\ zoom = MapInitZoom
    /\ airportMarkersRef = <<>>
    /\ markersRef = <<>>
    /\ routeLineRef = None
    /\ originAirport = None
    /\ destinationAirport = None
    /\ routeInfo = None
    /\ routeInfoExpanded = FALSE
    /\ searchOpen = FALSE
    /\ searchQuery = <<>>
    /\ filteredAirports = <<>>
    /\ closure = [originAirport |-> None, destinationAirport |-> None]
    /\ last = Event("init", "none", None)

Init == InitApp /\ flight = None

\* ------------------------------------------------------------------------
\* Actions
\* ------------------------------------------------------------------------
\* the re-render after a handler: the state setters take effect and the
\* filter effect runs when one of its deps changed
Commit(s) ==
    /\ markersRef' = s.markersRef
    /\ routeLineRef' = s.routeLineRef
    /\ originAirport' = s.originAirport
    /\ destinationAirport' = s.destinationAirport
    /\ routeInfo' = s.routeInfo
    /\ routeInfoExpanded' = s.routeInfoExpanded
    /\ searchOpen' = s.searchOpen
    /\ searchQuery' = s.searchQuery
    /\ filteredAirports' =
         IF s.searchOpen # searchOpen \/ s.searchQuery # searchQuery
         THEN filterAirports(airports, s.searchQuery, s.searchOpen, bounds)
         ELSE filteredAirports

\* fetch('/airports.json') resolves: setAirports(data); the marker effect
\* runs (first updateAirportMarkers, moveend / zoomend registered) and closes
\* over this render's handleAirportSelect; the filter effect runs
LoadAirports(data) ==
    /\ airports = <<>>
    /\ airports' = data
    /\ airportMarkersRef' = updateAirportMarkers(data, airportMarkersRef, bounds, zoom)
    /\ closure' = [originAirport |-> originAirport,
                   destinationAirport |-> destinationAirport]
    /\ filteredAirports' = filterAirports(data, searchQuery, searchOpen, bounds)
    /\ last' = Event("load", "none", None)
    /\ UNCHANGED flight
    /\ UNCHANGED <<bounds, zoom, markersRef, routeLineRef, originAirport,
                   destinationAirport, routeInfo, routeInfoExpanded,
                   searchOpen, searchQuery>>

\* mutant: the update removes the route endpoint markers with the airport
\* markers
MoveEnd_RemovesRouteMarkers(b, z) ==
    /\ bounds' = b
    /\ zoom' = z
    /\ airportMarkersRef' =
         IF airports # <<>>
         THEN updateAirportMarkers(airports, airportMarkersRef, b, z)
         ELSE airportMarkersRef
    /\ markersRef' = <<>>
    /\ last' = Event("moveend", "none", None)
    /\ UNCHANGED flight
    /\ UNCHANGED <<airports, routeLineRef, originAirport,
                   destinationAirport, routeInfo, routeInfoExpanded,
                   searchOpen, searchQuery, filteredAirports, closure>>

\* the map ends a move or zoom at view (b, z); once the marker effect has
\* registered it, updateAirportMarkers runs
MoveEnd(b, z) ==
    /\ bounds' = b
    /\ zoom' = z
    /\ airportMarkersRef' =
         IF airports # <<>>
         THEN updateAirportMarkers(airports, airportMarkersRef, b, z)
         ELSE airportMarkersRef
    /\ last' = Event("moveend", "none", None)
    /\ UNCHANGED flight
    /\ UNCHANGED <<airports, markersRef, routeLineRef, originAirport,
                   destinationAirport, routeInfo, routeInfoExpanded,
                   searchOpen, searchQuery, filteredAirports, closure>>

\* the user clicks airport marker k: its popup opens
OpenPopup(k) ==
    /\ k \in DOMAIN airportMarkersRef
    /\ ~airportMarkersRef[k].popup
    /\ airportMarkersRef' = [closePopups(airportMarkersRef) EXCEPT ![k].popup = TRUE]
    /\ last' = Event("popupopen", "none", None)
    /\ UNCHANGED flight
    /\ UNCHANGED <<airports, bounds, zoom, markersRef, routeLineRef, originAirport,
                   destinationAirport, routeInfo, routeInfoExpanded,
                   searchOpen, searchQuery, filteredAirports, closure>>

\* the popup of airport marker k closes
ClosePopup(k) ==
    /\ k \in DOMAIN airportMarkersRef
    /\ airportMarkersRef[k].popup
    /\ airportMarkersRef' = [airportMarkersRef EXCEPT ![k].popup = FALSE]
    /\ last' = Event("popupclose", "none", None)
    /\ UNCHANGED flight
    /\ UNCHANGED <<airports, bounds, zoom, markersRef, routeLineRef, originAirport,
                   destinationAirport, routeInfo, routeInfoExpanded,
                   searchOpen, searchQuery, filteredAirports, closure>>

\* click on the search button
SearchToggle ==
    /\ Commit(handleSearchToggle(Cur))
    /\ last' = Event("toggle", "none", None)
    /\ UNCHANGED flight
    /\ UNCHANGED <<airports, bounds, zoom, airportMarkersRef, closure>>

\* onInput of the search input, rendered while searchOpen
SearchInput(q) ==
    /\ searchOpen
    /\ q # searchQuery
    /\ Commit([Cur EXCEPT !.searchQuery = q])
    /\ last' = Event("input", "none", None)
    /\ UNCHANGED flight
    /\ UNCHANGED <<airports, bounds, zoom, airportMarkersRef, closure>>

\* click on search result k: handleAirportSelect of the current render; the
\* route marker's openPopup() closes the airport popup that was open
SelectSearchResult(k) ==
    /\ searchOpen
    /\ k \in DOMAIN filteredAirports
    /\ Commit(handleAirportSelect(Cur, originAirport, destinationAirport,
                                  filteredAirports[k]))
    /\ airportMarkersRef' = closePopups(airportMarkersRef)
    /\ last' = Event("select", "search", Some(filteredAirports[k]))
    /\ UNCHANGED flight
    /\ UNCHANGED <<airports, bounds, zoom, closure>>

\* click on the "Route to" link in the open popup of airport marker k:
\* handleRouteLinkClick calls the handleAirportSelect the marker effect
\* closed over
RouteLinkClick(k) ==
    /\ k \in DOMAIN airportMarkersRef
    /\ airportMarkersRef[k].popup
    /\ Commit(handleAirportSelect(Cur, closure.originAirport,
                                  closure.destinationAirport,
                                  airportMarkersRef[k].airport))
    /\ airportMarkersRef' = closePopups(airportMarkersRef)
    /\ last' = Event("select", "marker", Some(airportMarkersRef[k].airport))
    /\ UNCHANGED flight
    /\ UNCHANGED <<airports, bounds, zoom, closure>>

\* click on the close button of the route info box, rendered while routeInfo
ClearRouteClick ==
    /\ routeInfo # None
    /\ Commit(clearRoute(Cur))
    /\ last' = Event("clear", "none", None)
    /\ UNCHANGED flight
    /\ UNCHANGED <<airports, bounds, zoom, airportMarkersRef, closure>>

\* click on the header or the expand button of the route info box, rendered
\* while routeInfo, in a window of mobile width (isMobile)
ToggleRouteInfoExpanded ==
    /\ routeInfo # None
    /\ Commit(toggleRouteInfoExpanded(Cur))
    /\ last' = Event("expand", "none", None)
    /\ UNCHANGED flight
    /\ UNCHANGED <<airports, bounds, zoom, airportMarkersRef, closure>>

\* a pending call of calculateFlightTime runs to its end
CalculateFlightTime ==
    /\ flight # None
    /\ ~Val(flight).returned
    /\ flight' = Some([Val(flight) EXCEPT
                          !.returned = TRUE,
                          !.result = calculateFlightTime(Val(flight).distanceKm)])
    /\ UNCHANGED <<airports, bounds, zoom, airportMarkersRef, markersRef,
                   routeLineRef, originAirport, destinationAirport, routeInfo,
                   routeInfoExpanded, searchOpen, searchQuery, filteredAirports,
                   closure, last>>

\* ------------------------------------------------------------------------
\* Specifications
\* ------------------------------------------------------------------------
\* the whole component over the small dataset
Next ==
    \/ LoadAirports(SessionData)
    \/ \E b \in SessionBoxes, z \in Zooms : MoveEnd(b, z)
    \/ \E k \in 1..SessionN : OpenPopup(k)
    \/ \E k \in 1..SessionN : ClosePopup(k)
    \/ SearchToggle
    \/ \E q \in SearchInputs \cup {<<>>} : SearchInput(q)
    \/ \E k \in 1..SearchLimit : SelectSearchResult(k)
    \/ \E k \in 1..SessionN : RouteLinkClick(k)
    \/ ClearRouteClick
    \/ ToggleRouteInfoExpanded

Spec == Init /\ [][Next]_vars

\* the marker layer over the dense dataset
NextMarkers ==
    \/ LoadAirports(DenseData)
    \/ \E b \in DenseBoxes, z \in Zooms : MoveEnd(b, z)
    \/ \E k \in 1..(MAX_VISIBLE_AIRPORTS + 1) : OpenPopup(k)
    \/ \E k \in 1..(MAX_VISIBLE_AIRPORTS + 1) : ClosePopup(k)

SpecMarkers == Init /\ [][NextMarkers]_vars

\* the search box over the search dataset and a prefix of it
NextSearch ==
    \/ \E n \in {SearchSmallN, SearchN} : LoadAirports(SubSeq(SearchData, 1, n))
    \/ \E b \in SearchBoxes, z \in Zooms : MoveEnd(b, z)
    \/ SearchToggle
    \/ \E q \in SearchQueries \cup {<<>>} : SearchInput(q)

SpecSearch == Init /\ [][NextSearch]_vars

\* calculateFlightTime alone, over the distances of FlightDistances
InitFlight ==
    /\ InitApp
    /\ \E d \in FlightDistances :
          flight = Some([distanceKm |-> d, returned |-> FALSE, result |-> None])

NextFlight == CalculateFlightTime

SpecFlight == InitFlight /\ [][NextFlight]_vars

\* ------------------------------------------------------------------------
\* Route session properties (specification Spec)
\* ------------------------------------------------------------------------
Icao(a) == airports[a].icao

\* the last event was a selection of an airport, found in session state st
SelectedIn(st) == last.op = "select" /\ last.pre.state = st

\* the session a search-result click would have left, had it selected
\* last.airport in the session the last event found
AsSearchClick ==
    handleAirportSelect([Cur EXCEPT !.originAirport = last.pre.originAirport,
                                    !.destinationAirport = last.pre.destinationAirport,
                                    !.routeInfo = last.pre.routeInfo],
                        last.pre.originAirport, last.pre.destinationAirport,
                        Val(last.airport))

C2_SameAirportNoOp ==
    (/\ SelectedIn("OriginSelected")
     /\ Icao(Val(last.airport)) = Icao(Val(last.pre.originAirport)))
    => /\ originAirport = last.pre.originAirport
       /\ destinationAirport = None
       /\ routeInfo = None
       /\ SessionState(originAirport, destinationAirport) = "OriginSelected"

\* C3 (as claimed): a selection through a marker popup's "Route to" link
\* leaves the origin, the destination and the Route a search-result click on
\* the same airport in the same session would have left.
C3_MarkerAsSearchClick ==
    (last.op = "select" /\ last.via = "marker")
    => /\ originAirport = AsSearchClick.originAirport
       /\ destinationAirport = AsSearchClick.destinationAirport
       /\ routeInfo = AsSearchClick.routeInfo

C5_SelectOrigin ==
    SelectedIn("Empty")
    => /\ originAirport = last.airport
       /\ destinationAirport = None
       /\ routeInfo = None
       /\ SessionState(originAirport, destinationAirport) = "OriginSelected"

C5_Witness ==
    /\ SelectedIn("Empty")
    /\ originAirport = last.airport
    /\ originAirport # None

\* a session with nothing selected and nothing of a route on the map
Cleared(s) ==
    /\ s.originAirport = None
    /\ s.destinationAirport = None
    /\ s.routeInfo = None
    /\ s.routeLineRef = None
    /\ s.markersRef = <<>>

\* C6: clearRoute leaves origin, destination and Route unset and removes the
\* route line and the route endpoint markers: after a click on the clear
\* button, and when applied to the session of any reachable state (Empty,
\* OriginSelected or RouteComplete).
C6_ClearEmpties ==
    /\ last.op = "clear" => Cleared(Cur)
    /\ Cleared(clearRoute(Cur))

C6_Witness ==
    /\ last.op = "clear"
    /\ last.pre.state = "RouteComplete"
    /\ last.pre.routeInfo # None
    /\ Cleared(Cur)

\* C7: a Route exists exactly when an origin and a destination are both set,
\* and a destination is never set without an origin.
C7_RouteIffBothEndpoints ==
    /\ routeInfo # None <=> (originAirport # None /\ destinationAirport # None)
    /\ destinationAirport # None => originAirport # None

C7_Witness ==
    /\ last.op = "select"
    /\ last.via = "marker"
    /\ routeInfo # None
    /\ Val(routeInfo).origin # Val(originAirport)

\* ------------------------------------------------------------------------
\* Marker layer properties (specification SpecMarkers)
\* ------------------------------------------------------------------------
\* the last event ran updateAirportMarkers
Updated == last.op \in {"load", "moveend"}

\* the markers an update has just created: the preserved ones have their
\* popup open, the new ones have not
NewMarkers == {k \in DOMAIN airportMarkersRef : ~airportMarkersRef[k].popup}

\* airport a has a marker on the map with its popup open
OpenOnMap(a) ==
    \E k \in DOMAIN airportMarkersRef :
        airportMarkersRef[k].airport = a /\ airportMarkersRef[k].popup

\* the airports of the current bounding box that have a level
InBoxLevelled ==
    {i \in DOMAIN airports :
        /\ contains(bounds, airports[i].lat, airports[i].lon)
        /\ airports[i].level # Undefined}

\* the place of airport i in the order by level, then by dataset position
Rank(i) ==
    Cardinality({j \in InBoxLevelled :
        \/ airports[j].level[1] < airports[i].level[1]
        \/ airports[j].level[1] = airports[i].level[1] /\ j <= i})

\* the MAX_VISIBLE_AIRPORTS airports of the bounding box of highest priority
TopPriority == {i \in InBoxLevelled : Rank(i) <= MAX_VISIBLE_AIRPORTS}

\* C8: a marker whose popup is open when a marker update runs is on the map,
\* with its popup open, after the update: outside the new bounding box, cut
\* by the cap or below MIN_ZOOM_FOR_MARKERS alike.
C8_PinnedSurvive ==
    Updated => \A a \in last.pinned : OpenOnMap(a)

\* a pinned airport that lies in the bounding box but is not among the
\* MAX_VISIBLE_AIRPORTS selected ones has kept its marker
C8_Witness ==
    /\ last.op = "moveend"
    /\ zoom >= MIN_ZOOM_FOR_MARKERS
    /\ \E a \in last.pinned :
          /\ a \in InBoxLevelled
          /\ a \notin TopPriority
          /\ OpenOnMap(a)
    /\ Cardinality(NewMarkers) = MAX_VISIBLE_AIRPORTS

\* at least MAX_VISIBLE_AIRPORTS non-pinned airports with a level lie in the
\* bounding box of an update at zoom >= MIN_ZOOM_FOR_MARKERS
CapReachable ==
    /\ last.op = "moveend"
    /\ zoom >= MIN_ZOOM_FOR_MARKERS
    /\ Cardinality(InBoxLevelled \ last.pinned) >= MAX_VISIBLE_AIRPORTS

\* C9 (as claimed): when at least 20 non-pinned airports with a level in
\* 1..maxLevel lie in the bounding box at zoom >= 5, the update shows 20
\* non-pinned markers in addition to every pinned marker.
C9_PinnedNotCounted ==
    CapReachable
    => /\ Cardinality(NewMarkers) = MAX_VISIBLE_AIRPORTS
       /\ \A a \in last.pinned : OpenOnMap(a)

\* C9 (amended): under the same condition the update keeps every pinned
\* marker and shows 20 non-pinned markers less one for each pinned airport
\* that is itself among the 20 airports of highest priority in the box.
C9_PinnedInSelectionCounted ==
    CapReachable
    => /\ Cardinality(NewMarkers)
            = MAX_VISIBLE_AIRPORTS - Cardinality(last.pinned \cap TopPriority)
       /\ \A a \in last.pinned : OpenOnMap(a)
       /\ \A k \in NewMarkers : airportMarkersRef[k].airport \in TopPriority \ last.pinned

C9_Witness ==
    /\ CapReachable
    /\ last.pinned \cap TopPriority # {}
    /\ Cardinality(NewMarkers) = MAX_VISIBLE_AIRPORTS - 1

\* the level-1 airports of the current bounding box
InBoxLevel1 == {i \in InBoxLevelled : airports[i].level = Level(1)}

\* C10: one update never creates more than MAX_VISIBLE_AIRPORTS markers, and
\* an update at zoom >= 5 with no pinned marker and more than 20 level-1
\* airports in the bounding box leaves exactly 20 markers, all of level 1.
C10_MarkerCap ==
    /\ Updated => Cardinality(NewMarkers) <= MAX_VISIBLE_AIRPORTS
    /\ (/\ last.op = "moveend"
        /\ zoom >= MIN_ZOOM_FOR_MARKERS
        /\ last.pinned = {}
        /\ Cardinality(InBoxLevel1) > MAX_VISIBLE_AIRPORTS)
       => /\ Len(airportMarkersRef) = MAX_VISIBLE_AIRPORTS
          /\ \A k \in DOMAIN airportMarkersRef :
                airportMarkersRef[k].airport \in InBoxLevel1

C10_Witness ==
    /\ last.op = "moveend"
    /\ zoom >= MIN_ZOOM_FOR_MARKERS
    /\ last.pinned = {}
    /\ Cardinality(InBoxLevel1) > MAX_VISIBLE_AIRPORTS
    /\ Len(airportMarkersRef) = MAX_VISIBLE_AIRPORTS

\* the airports that have a marker on the map
OnMap == {airportMarkersRef[k].airport : k \in DOMAIN airportMarkersRef}

\* the airports whose marker the last update created
Created == {airportMarkersRef[k].airport : k \in NewMarkers}

\* C11: an update below zoom MIN_ZOOM_FOR_MARKERS creates no marker and
\* leaves exactly the pinned markers on the map; an update at zoom
\* MIN_ZOOM_FOR_MARKERS or above computes the selection and creates the
\* markers of the selected airports that are not pinned.
C11_ZoomThreshold ==
    /\ (Updated /\ airports # <<>> /\ zoom < MIN_ZOOM_FOR_MARKERS)
       => /\ NewMarkers = {}
          /\ OnMap = last.pinned
          /\ Len(airportMarkersRef) = Cardinality(last.pinned)
    /\ (Updated /\ airports # <<>> /\ zoom >= MIN_ZOOM_FOR_MARKERS)
       => /\ Created = TopPriority \ last.pinned
          /\ Cardinality(NewMarkers) = Cardinality(Created)

\* a move to zoom 4 with a pinned marker and airports in the bounding box
C11_Witness ==
    /\ last.op = "moveend"
    /\ zoom = MIN_ZOOM_FOR_MARKERS - 1
    /\ InBoxLevelled # {}
    /\ last.pinned # {}
    /\ OnMap = last.pinned

\* a move to zoom 5 exactly creates markers
C11_AtThreshold ==
    /\ last.op = "moveend"
    /\ zoom = MIN_ZOOM_FOR_MARKERS
    /\ Created # {}

\* the level of an airport that has one
LevelOf(i) == airports[i].level[1]

\* the airports of the bounding box whose level is lower than airport i's
LowerInBox(i) == {j \in InBoxLevelled : LevelOf(j) < LevelOf(i)}

\* the levels below airport i's that no airport of the bounding box has
EmptyLevelsBelow(i) ==
    {l \in 1..(LevelOf(i) - 1) : \A j \in InBoxLevelled : LevelOf(j) # l}

\* C12: after an update at zoom >= MIN_ZOOM_FOR_MARKERS, an airport of level
\* L that was selected for a marker has every airport of the bounding box of
\* a lower level on the map, was added while fewer than MAX_VISIBLE_AIRPORTS
\* airports had accumulated and has a level <= maxLevel; a level that no
\* airport of the bounding box has is skipped, the levels above it are still
\* selected.
C12_AscendingLevels ==
    (Updated /\ airports # <<>> /\ zoom >= MIN_ZOOM_FOR_MARKERS)
    => /\ \A i \in Created :
             /\ LowerInBox(i) \subseteq OnMap
             /\ Cardinality(LowerInBox(i)) < MAX_VISIBLE_AIRPORTS
             /\ LevelOf(i) <= maxLevel(airports)
       /\ \A i \in InBoxLevelled :
             (EmptyLevelsBelow(i) # {} /\ Rank(i) <= MAX_VISIBLE_AIRPORTS)
             => i \in OnMap

\* a level-3 airport got its marker although the bounding box holds level-1
\* airports and none of level 2
C12_Witness ==
    /\ last.op = "moveend"
    /\ zoom >= MIN_ZOOM_FOR_MARKERS
    /\ \E i \in Created :
          /\ LevelOf(i) = 3
          /\ EmptyLevelsBelow(i) = {2}
          /\ LowerInBox(i) # {}
          /\ LowerInBox(i) \subseteq OnMap

\* the cap ended the loop before level 3: a level-3 airport of the bounding
\* box has no marker, MAX_VISIBLE_AIRPORTS airports of lower level have
C12_CapEndsLoop ==
    /\ last.op = "moveend"
    /\ zoom >= MIN_ZOOM_FOR_MARKERS
    /\ \E i \in InBoxLevelled \ OnMap :
          LevelOf(i) = 3 /\ Cardinality(LowerInBox(i)) >= MAX_VISIBLE_AIRPORTS

\* the levels of the airports that have a marker on the map
LevelsOnMap == {airports[i].level : i \in OnMap}

\* C13: every airport marker has the icon its airport's level gives: level 1
\* size 10 and colour #FF4444, level 2 size 8 and colour #4285F4, any other
\* level and no level size 6 and colour #888888.
C13_IconByLevel ==
    /\ \A k \in DOMAIN airportMarkersRef :
          LET m == airportMarkersRef[k]
              level == airports[m.airport].level
          IN /\ level = Level(1) => m.icon = [size |-> 10, color |-> "#FF4444"]
             /\ level = Level(2) => m.icon = [size |-> 8, color |-> "#4285F4"]
             /\ level \notin {Level(1), Level(2)}
                => m.icon = [size |-> 6, color |-> "#888888"]
    /\ iconConfig(Undefined) = [size |-> 6, color |-> "#888888"]

\* markers of level 1, 2 and 3 are on the map together
C13_Witness ==
    /\ Updated
    /\ {Level(1), Level(2), Level(3)} \subseteq LevelsOnMap
    /\ \E k \in DOMAIN airportMarkersRef :
          /\ airports[airportMarkersRef[k].airport].level = Level(3)
          /\ airportMarkersRef[k].icon.size = 6

\* ------------------------------------------------------------------------
\* Flight estimate properties (specification SpecFlight)
\* ------------------------------------------------------------------------
\* calculateFlightTime has returned a result for the distance d
Returned == flight # None /\ Val(flight).returned /\ Val(flight).result # None

FlightDistance == Val(flight).distanceKm
FlightResult == Val(Val(flight).result)

\* C14 (as claimed): the result of calculateFlightTime has hours >= 0 and
\* minutes in 0..59; minutes = 60 is never returned.
C14_MinutesBelow60 ==
    Returned => /\ FlightResult.hours \in Nat
                /\ FlightResult.minutes \in 0..59

\* km as a distance of the model
Km(k) == k * DistanceScale

\* C15: the aircraft is that of the first band whose maxDistance is strictly
\* above the distance: below 500 km Regional Jet, from 500 to below 1500
\* Narrow Body, from 1500 to below 6000 Wide Body, 6000 and more Large Wide
\* Body; exactly 500, 1500 and 6000 are in the higher band.
C15_FirstBandAbove ==
    Returned =>
      FlightResult.aircraft =
        IF FlightDistance < Km(500) THEN "Regional Jet (e.g., Embraer E175)"
        ELSE IF FlightDistance < Km(1500)
             THEN "Narrow Body (e.g., Boeing 737, Airbus A320)"
        ELSE IF FlightDistance < Km(6000)
             THEN "Wide Body (e.g., Boeing 787, Airbus A350)"
        ELSE "Large Wide Body (e.g., Boeing 777, Airbus A380)"

\* exactly 1500 km is a Wide Body flight
C15_Witness ==
    /\ Returned
    /\ FlightDistance = Km(1500)
    /\ FlightResult.aircraft = "Wide Body (e.g., Boeing 787, Airbus A350)"

\* the flight time of the result, in minutes
FlightMinutes == FlightResult.hours * 60 + FlightResult.minutes

\* the distance is within 5555 +/- 10 km
JfkLhr == Km(5555 - 10) <= FlightDistance /\ FlightDistance <= Km(5555 + 10)

\* C16 (as claimed): every distance within 5555 +/- 10 km is a Wide Body
\* flight whose time is within 2 minutes of 6h 34m.
C16_JfkLhr634 ==
    (Returned /\ JfkLhr)
    => /\ FlightResult.aircraft = "Wide Body (e.g., Boeing 787, Airbus A350)"
       /\ FlightMinutes \in (6 * 60 + 34 - 2)..(6 * 60 + 34 + 2)

\* C16 (amended): every distance within 5555 +/- 10 km is a Wide Body
\* flight whose time is within 2 minutes of 6h 40m.
C16_JfkLhr640 ==
    (Returned /\ JfkLhr)
    => /\ FlightResult.aircraft = "Wide Body (e.g., Boeing 787, Airbus A350)"
       /\ FlightMinutes \in (6 * 60 + 40 - 2)..(6 * 60 + 40 + 2)

\* 5555 km exactly: 6h 40m
C16_Witness ==
    /\ Returned
    /\ FlightDistance = Km(5555)
    /\ FlightResult.hours = 6
    /\ FlightResult.minutes = 40

\* C17: calculateFlightTime finds a band and returns a result for every
\* distance: no call ends in the TypeError of an undefined config.
C17_Total ==
    (flight # None /\ Val(flight).returned)
    => /\ Val(flight).result # None
       /\ find(AIRCRAFT_CONFIG, FlightDistance) # None

\* a distance beyond every finite maxDistance got its result
C17_Witness ==
    /\ Returned
    /\ FlightDistance > Km(6000)
    /\ FlightResult.aircraft = "Large Wide Body (e.g., Boeing 777, Airbus A380)"

\* ------------------------------------------------------------------------
\* Search properties (specification SpecSearch)
\* ------------------------------------------------------------------------
\* the last event ran the filter effect with the search box open
Filtered == last.op \in {"load", "toggle", "input"} /\ searchOpen

\* the characters c and d differ in case at most
SameLetter(c, d) ==
    \/ c = d
    \/ \E p \in {<<"A", "a">>, <<"B", "b">>, <<"C", "c">>, <<"K", "k">>} :
          {c, d} = {p[1], p[2]}

\* q occurs in the text s, case ignored
OccursIn(q, s) ==
    \E off \in 0..(Len(s) - Len(q)) :
        \A j \in 1..Len(q) : SameLetter(s[off + j], q[j])

\* the query without its leading and trailing blanks
Trimmed(q) ==
    LET inked == {k \in DOMAIN q : q[k] # " "}
    IN IF inked = {} THEN <<>>
       ELSE SubSeq(q, CHOOSE k \in inked : \A j \in inked : k <= j,
                      CHOOSE k \in inked : \A j \in inked : k >= j)

\* the airports the query of the search box matches
Matching ==
    {i \in DOMAIN airports :
        \/ Trimmed(searchQuery) = <<>>
        \/ \E s \in {airports[i].name, airports[i].city,
                     airports[i].iata, airports[i].icao} :
              OccursIn(Trimmed(searchQuery), s)}

\* the distance of airport i from the centre of the map
FromCentre(i) == distanceTo(bounds, airports[i])

\* airport i comes before airport j: nearer, or as near and earlier in the
\* dataset
Before(i, j) ==
    \/ FromCentre(i) < FromCentre(j)
    \/ FromCentre(i) = FromCentre(j) /\ i < j

C19_BlankQuery ==
    /\ Filtered
    /\ searchQuery = <<" ">>
    /\ airports # <<>>
    /\ Range(filteredAirports) = DOMAIN airports

\* the airports of the bounding box of airport i's level
SameLevelInBox(i) == {j \in InBoxLevelled : LevelOf(j) = LevelOf(i)}

\* airport i of the bounding box was cut by the slice: its level was
\* admitted by the loop, it has no marker
CutBySlice(i) ==
    /\ i \in InBoxLevelled \ OnMap
    /\ Cardinality(LowerInBox(i)) < MAX_VISIBLE_AIRPORTS

\* C21: when the accumulated selection exceeds MAX_VISIBLE_AIRPORTS, the cut
\* falls in the last admitted level only and keeps a prefix of it in dataset
\* order: for an airport that was cut, every airport of the bounding box of
\* a lower level has a marker, the airports of its own level that got a new
\* marker all come before it in the dataset, and at least
\* MAX_VISIBLE_AIRPORTS airports of the bounding box come before it by level
\* and dataset position.
C21_PrefixOfLastLevel ==
    (Updated /\ airports # <<>> /\ zoom >= MIN_ZOOM_FOR_MARKERS)
    => \A i \in InBoxLevelled :
          CutBySlice(i)
          => /\ LowerInBox(i) \subseteq OnMap
             /\ \A j \in SameLevelInBox(i) \cap Created : j < i
             /\ Cardinality(LowerInBox(i))
                  + Cardinality({j \in SameLevelInBox(i) : j < i})
                >= MAX_VISIBLE_AIRPORTS

\* a level-2 airport was cut while level-1 airports and earlier level-2
\* airports of the bounding box got their markers
C21_Witness ==
    /\ last.op = "moveend"
    /\ zoom >= MIN_ZOOM_FOR_MARKERS
    /\ \E i \in InBoxLevelled :
          /\ CutBySlice(i)
          /\ LevelOf(i) = 2
          /\ LowerInBox(i) # {}
          /\ LowerInBox(i) \subseteq OnMap
          /\ \E j \in SameLevelInBox(i) : j < i /\ j \in Created

\* ------------------------------------------------------------------------
\* Search box and route panel properties (specification Spec)
\* ------------------------------------------------------------------------
\* C22 (as claimed): after the origin is selected from the search results
\* the search box is closed and the query is the one the selection found.
C22_QueryKept ==
    (SelectedIn("Empty") /\ last.via = "search")
    => /\ ~searchOpen
       /\ searchQuery = last.query

\* C23 (as claimed): whenever a Route exists, its origin is the current
\* origin airport and its destination the current destination airport.
C23_RouteIsSelection ==
    routeInfo # None
    => /\ originAirport = Some(Val(routeInfo).origin)
       /\ destinationAirport = Some(Val(routeInfo).destination)

\* the number of endpoints that are set
Endpoints ==
    (IF originAirport = None THEN 0 ELSE 1)
      + (IF destinationAirport = None THEN 0 ELSE 1)

\* C24 (as claimed): markersRef holds as many markers as endpoints are set,
\* and a route line is on the map exactly when a Route exists.
C24_MarkersMirrorSession ==
    /\ Len(markersRef) = Endpoints
    /\ routeLineRef # None <=> routeInfo # None

\* ------------------------------------------------------------------------
\* Marker layer properties, continued (specification SpecMarkers)
\* ------------------------------------------------------------------------
\* C25: airportMarkersRef holds at most one marker per airport icao.
C25_OneMarkerPerIcao ==
    \A k1, k2 \in DOMAIN airportMarkersRef :
        Icao(airportMarkersRef[k1].airport) = Icao(airportMarkersRef[k2].airport)
        => k1 = k2

\* an update selected an airport whose marker was pinned and created other
\* markers: the pinned airport has its one marker
C25_Witness ==
    /\ last.op = "moveend"
    /\ zoom >= MIN_ZOOM_FOR_MARKERS
    /\ Created # {}
    /\ \E a \in last.pinned \cap TopPriority :
          Cardinality({k \in DOMAIN airportMarkersRef :
                          airportMarkersRef[k].airport = a}) = 1

\* C26: a marker that was kept for its open popup and whose popup has been
\* closed since is on the map after the next marker update exactly when its
\* airport is selected for the new view (zoom >= MIN_ZOOM_FOR_MARKERS, inside
\* the bounding box, within the cap); it is then a new marker, popup closed.
C26_PinnedWhileOpen ==
    (Updated /\ airports # <<>>)
    => \A a \in last.unpinned :
          /\ a \in OnMap <=> (zoom >= MIN_ZOOM_FOR_MARKERS /\ a \in TopPriority)
          /\ ~OpenOnMap(a)

\* an update removed a marker whose popup had been closed
C26_Witness ==
    /\ last.op = "moveend"
    /\ \E a \in last.unpinned : a \notin OnMap

\* an update recreated a marker whose popup had been closed
C26_Recreated ==
    /\ last.op = "moveend"
    /\ \E a \in last.unpinned : a \in Created

\* the airports of the current bounding box that have no level
InBoxNoLevel ==
    {i \in DOMAIN airports :
        /\ contains(bounds, airports[i].lat, airports[i].lon)
        /\ airports[i].level = Undefined}

\* C27: no marker is ever created for an airport without a level, however
\* few airports the bounding box holds; maxLevel counts such an airport as
\* level 1.
C27_NoLevelNoMarker ==
    /\ \A k \in DOMAIN airportMarkersRef :
          airports[airportMarkersRef[k].airport].level # Undefined
    /\ \A i \in DOMAIN airports :
          airports[i].level = Undefined => maxLevel(<<airports[i]>>) = 1

\* an update at zoom >= MIN_ZOOM_FOR_MARKERS with fewer than
\* MAX_VISIBLE_AIRPORTS airports in the bounding box, one of them without a
\* level: all the others have their marker, it has none
C27_Witness ==
    /\ last.op = "moveend"
    /\ zoom >= MIN_ZOOM_FOR_MARKERS
    /\ InBoxNoLevel # {}
    /\ Cardinality(InBoxLevelled) + Cardinality(InBoxNoLevel) < MAX_VISIBLE_AIRPORTS
    /\ OnMap = InBoxLevelled

C29_ClosedSearchIsEmpty ==
    ~searchOpen => searchQuery = <<>> /\ filteredAirports = <<>>

\* the search box was closed over a query: by the toggle
C29_Witness ==
    /\ last.op = "toggle"
    /\ last.query # <<>>
    /\ ~searchOpen
    /\ searchQuery = <<>>
    /\ filteredAirports = <<>>

\* the search box was closed over a query: by a selection
C29_ClosedBySelection ==
    /\ last.op = "select"
    /\ last.query # <<>>
    /\ ~searchOpen
    /\ filteredAirports = <<>>

\* C30: the route panel is expanded only while a Route exists, and a Route
\* that has just been created is collapsed.
C30_ExpandedOnlyWithRoute ==
    /\ routeInfoExpanded => routeInfo # None
    /\ (last.op = "select" /\ last.pre.routeInfo = None /\ routeInfo # None)
       => ~routeInfoExpanded

\* the panel of a Route was expanded
C30_Witness ==
    /\ last.op = "expand"
    /\ routeInfoExpanded
    /\ routeInfo # None

\* a Route was created, its panel is collapsed
C30_NewRouteCollapsed ==
    /\ last.op = "select"
    /\ last.pre.routeInfo = None
    /\ routeInfo # None
    /\ ~routeInfoExpanded

====
